---- MODULE Spec2Model ----
(***************************************************************************)
(* LyssaRDSGen (lyssa_rds_gen.py): the base-24 key codec, the LKP payload  *)
(* encoder, the signature engine (generate_tskey / validate_tskey) and the *)
(* command-line flow of main().                                            *)
(*                                                                         *)
(* Representation.  A Python str is a sequence of one-character strings, a *)
(* bytes object a sequence of numbers 0..255.  An unbounded Python int     *)
(* that travels through the codec or the payload is a little-endian        *)
(* base-256 digit sequence without trailing zeros ("Nat" below), so that   *)
(* 160-bit values are computed exactly.  A call that can raise returns     *)
(* [exc |-> "none", val |-> v] or [exc |-> <exception class>, val |-> _].  *)
(*                                                                         *)
(* Reduced widths.  Curve arithmetic runs on machine integers, so the two  *)
(* curves are reduced-size instances of the same family y^2 = x^3 + x      *)
(* (a = 1, b = 0) with a generator of prime order n and K = priv * G, and  *)
(* the signature field widths are reduced with them: s has SBITS = 5 bits  *)
(* (69 in the source) with 2^SBITS < n < 2^(SBITS+1) as in the source, h   *)
(* has HBITS = 3 bits (35 in the source) and is read through a mask of     *)
(* HMASK_BITS = 4 bits (39 in the source, wider than the field), the       *)
(* signature field is SIG_LEN = 2 bytes (14 in the source) whose top byte  *)
(* holds no bit of s or h.  MD5 and SHA-1 are deterministic mixing         *)
(* functions; SHA-1                                                        *)
(* is drawn from a family indexed by `salt`.  Everything else (payload of  *)
(* 7 bytes, 48-byte coordinates, RC4 with 256 cells and a 16-byte key, the *)
(* 35-character padding, the 1000 attempts) has the source's size.         *)
(***************************************************************************)
EXTENDS Integers, Sequences, FiniteSets, TLC

VARIABLES codec, lkp, gen, val, run

vars == <<codec, lkp, gen, val, run>>

(***************************************************************************)
(* Results of calls that may raise                                         *)
(***************************************************************************)
Ok(v) == [exc |-> "none", val |-> v]

Raise(e) == [exc |-> e, val |-> <<>>]

IsOk(r) == r.exc = "none"

\* the statement after a call: K on the value returned, or the exception
\* travelling on
Try(r, K(_)) == IF IsOk(r) THEN K(r.val) ELSE r

(***************************************************************************)
(* Python ints as little-endian byte sequences                             *)
(***************************************************************************)
RECURSIVE Trim(_)
Trim(bs) ==
  IF bs = <<>> THEN <<>>
  ELSE IF bs[Len(bs)] = 0 THEN Trim(SubSeq(bs, 1, Len(bs) - 1)) ELSE bs

RECURSIVE FromInt(_)
FromInt(k) == IF k = 0 THEN <<>> ELSE <<k % 256>> \o FromInt(k \div 256)

RECURSIVE ToInt(_)
ToInt(bs) == IF bs = <<>> THEN 0 ELSE bs[1] + 256 * ToInt(Tail(bs))

\* bs * m + carry, for a machine-size m
RECURSIVE MulAdd(_, _, _)
MulAdd(bs, m, carry) ==
  IF bs = <<>> THEN FromInt(carry)
  ELSE LET t == bs[1] * m + carry
       IN  <<t % 256>> \o MulAdd(Tail(bs), m, t \div 256)

\* long division of the digits bs[1..i] by a machine-size d
RECURSIVE DivSmall(_, _, _, _)
DivSmall(bs, d, i, rem) ==
  IF i = Len(bs) + 1 THEN [q |-> <<>>, r |-> rem]
  ELSE LET hi  == DivSmall(bs, d, i + 1, rem)
           cur == hi.r * 256 + bs[i]
       IN  [q |-> <<cur \div d>> \o hi.q, r |-> cur % d]

\* n // d and n % d
DivMod(n, d) ==
  LET qr == DivSmall(n, d, 1, 0) IN [q |-> Trim(qr.q), r |-> qr.r]

RECURSIVE Pow(_, _)
Pow(b, e) == IF e = 0 THEN <<1>> ELSE MulAdd(Pow(b, e - 1), b, 0)

\* m < n on Nats
RECURSIVE LessFrom(_, _, _)
LessFrom(m, n, i) ==
  IF i = 0 THEN FALSE
  ELSE IF m[i] # n[i] THEN m[i] < n[i] ELSE LessFrom(m, n, i - 1)

NatLess(m, n) ==
  IF Len(m) # Len(n) THEN Len(m) < Len(n) ELSE LessFrom(m, n, Len(m))

\* bigint_to_bytes_le: int.to_bytes(length, 'little') raises OverflowError
\* when the value does not fit
bigint_to_bytes_le(n, length) ==
  IF Len(n) > length THEN Raise("OverflowError")
  ELSE Ok([i \in 1..length |-> IF i <= Len(n) THEN n[i] ELSE 0])

bytes_to_bigint_le(data) == Trim(data)

(***************************************************************************)
(* Key codec                                                               *)
(***************************************************************************)
KCHARS ==
  << "B", "C", "D", "F", "G", "H", "J", "K", "M", "P", "Q", "R",
     "T", "V", "W", "X", "Y", "2", "3", "4", "6", "7", "8", "9" >>

\* the width out.rjust(...) pads to
PAD_LEN == 35

\* the length of one dash-separated group
GROUP_LEN == 5

\* str.rjust(width, fill): never truncates
rjust(s, width, fill) ==
  IF Len(s) >= width THEN s
  ELSE [i \in 1..width |->
          IF i <= width - Len(s) THEN fill ELSE s[i - (width - Len(s))]]

\* [out[i:i+5] for i in range(0, len(out), 5)]
RECURSIVE Segments(_)
Segments(out) ==
  IF out = <<>> THEN <<>>
  ELSE IF Len(out) <= GROUP_LEN THEN <<out>>
  ELSE <<SubSeq(out, 1, GROUP_LEN)>>
         \o Segments(SubSeq(out, GROUP_LEN + 1, Len(out)))

\* "-".join(segments)
RECURSIVE JoinDash(_)
JoinDash(segs) ==
  IF segs = <<>> THEN <<>>
  ELSE IF Len(segs) = 1 THEN segs[1]
  ELSE segs[1] \o <<"-">> \o JoinDash(Tail(segs))

\* the while loop of encode_pkey: out = KCHARS[n % 24] + out; n //= 24
RECURSIVE EncodeDigits(_, _)
EncodeDigits(n, out) ==
  IF n = <<>> THEN out
  ELSE LET qr == DivMod(n, Len(KCHARS))
       IN  EncodeDigits(qr.q, <<KCHARS[qr.r + 1]>> \o out)

\* the padding of encode_pkey taken to be the 25 characters of a 29-character key
encode_pkey_pad25(n) ==
  IF n = <<>> THEN <<>>
  ELSE JoinDash(Segments(rjust(EncodeDigits(n, <<>>), 25, KCHARS[1])))

encode_pkey(n) ==
  IF n = <<>> THEN <<>>
  ELSE JoinDash(Segments(rjust(EncodeDigits(n, <<>>), PAD_LEN, KCHARS[1])))

\* key.replace("-", "")
RECURSIVE StripDashes(_)
StripDashes(key) ==
  IF key = <<>> THEN <<>>
  ELSE IF key[1] = "-" THEN StripDashes(Tail(key))
  ELSE <<key[1]>> \o StripDashes(Tail(key))

\* KCHARS.index(char): the 0-based position, or -1 for "raises ValueError"
KIndex(char) ==
  IF \E i \in 1..Len(KCHARS) : KCHARS[i] = char
  THEN (CHOOSE i \in 1..Len(KCHARS) : KCHARS[i] = char) - 1
  ELSE -1

\* the for loop of decode_pkey over key_string[i..]
RECURSIVE DecodeFrom(_, _, _)
DecodeFrom(ks, i, out) ==
  IF i > Len(ks) THEN Ok(out)
  ELSE IF KIndex(ks[i]) = -1 THEN Raise("ValueError")
  ELSE DecodeFrom(ks, i + 1, MulAdd(out, Len(KCHARS), KIndex(ks[i])))

\* a decoder that reads the alphabet position 1-based
RECURSIVE DecodeFromOneBased(_, _, _)
DecodeFromOneBased(ks, i, out) ==
  IF i > Len(ks) THEN Ok(out)
  ELSE IF KIndex(ks[i]) = -1 THEN Raise("ValueError")
  ELSE DecodeFromOneBased(ks, i + 1,
                          MulAdd(out, Len(KCHARS), KIndex(ks[i]) + 1))

decode_pkey_onebased(key) ==
  LET key_string == StripDashes(key)
  IN  IF Len(key_string) % GROUP_LEN # 0 THEN Raise("ValueError")
      ELSE DecodeFromOneBased(key_string, 1, <<>>)

decode_pkey(key) ==
  LET key_string == StripDashes(key)
  IN  IF Len(key_string) % GROUP_LEN # 0 THEN Raise("ValueError")
      ELSE DecodeFrom(key_string, 1, <<>>)

(***************************************************************************)
(* Bit operations on machine-size non-negative ints                        *)
(***************************************************************************)
RECURSIVE BitAnd(_, _)
BitAnd(x, y) ==
  IF x = 0 \/ y = 0 THEN 0
  ELSE (x % 2) * (y % 2) + 2 * BitAnd(x \div 2, y \div 2)

RECURSIVE BitOr(_, _)
BitOr(x, y) ==
  IF x = 0 THEN y
  ELSE IF y = 0 THEN x
  ELSE (IF x % 2 = 1 \/ y % 2 = 1 THEN 1 ELSE 0)
         + 2 * BitOr(x \div 2, y \div 2)

RECURSIVE BitXor(_, _)
BitXor(x, y) ==
  IF x = 0 THEN y
  ELSE IF y = 0 THEN x
  ELSE ((x + y) % 2) + 2 * BitXor(x \div 2, y \div 2)

RECURSIVE Pow2(_)
Pow2(k) == IF k = 0 THEN 1 ELSE 2 * Pow2(k - 1)

Shl(x, k) == x * Pow2(k)

Shr(x, k) == x \div Pow2(k)

(***************************************************************************)
(* generate_lkp: the version code and the 7-byte LKP payload               *)
(***************************************************************************)
\* the length of an inner payload (spkdata, lkpdata, keydata_inner)
INNER_LEN == 7

\* a version code computed from the pair for every pair but (5, 0)
lkp_version_per_pair(major_ver, minor_ver) ==
  IF major_ver = 5 /\ minor_ver = 0 THEN 1
  ELSE BitOr(Shl(major_ver, 3), minor_ver)

\* version = 1; if (major == 5 and minor > 0) or major > 5: (major << 3) | minor
lkp_version(major_ver, minor_ver) ==
  IF (major_ver = 5 /\ minor_ver > 0) \/ major_ver > 5
  THEN BitOr(Shl(major_ver, 3), minor_ver)
  ELSE 1

\* lkpinfo = (chid << 46) | (count << 32) | (2 << 18) | (144 << 10) | (version << 3),
\* written as its low 32-bit word and the bits from 32 up
lkp_info(count, chid, version) ==
  LET lo == BitOr(BitOr(Shl(2, 18), Shl(144, 10)), Shl(version, 3))
      hi == BitOr(Shl(chid, 14), count)
  IN  Trim([i \in 1..4 |-> Shr(lo, 8 * (i - 1)) % 256] \o FromInt(hi))

\* lkpdata = bigint_to_bytes_le(lkpinfo, 7)
lkp_data(count, chid, major_ver, minor_ver) ==
  bigint_to_bytes_le(lkp_info(count, chid, lkp_version(major_ver, minor_ver)),
                     INNER_LEN)

\* bits 9..3 of a little-endian payload
VersionField(data) == Shr(data[1], 3) + 32 * (data[2] % 4)

(***************************************************************************)
(* Curves and curve arithmetic                                             *)
(***************************************************************************)
\* class SPKCurve, at reduced size: G = (89, 16) has prime order 37 on
\* y^2 = x^3 + x over F_173, K = priv * G
SPKCurve ==
  [name |-> "SPK", a |-> 1, b |-> 0, p |-> 173, n |-> 37,
   Gx |-> 89, Gy |-> 16, Kx |-> 55, Ky |-> 2, priv |-> 9]

\* class LKPCurve, at reduced size: G = (144, 67) has prime order 41 on
\* y^2 = x^3 + x over F_149, K = priv * G
LKPCurve ==
  [name |-> "LKP", a |-> 1, b |-> 0, p |-> 149, n |-> 41,
   Gx |-> 144, Gy |-> 67, Kx |-> 68, Ky |-> 40, priv |-> 6]

\* a corrupted parameter set, as the curve argument admits: G = K = (0, 0), the
\* point of order 2, whose doubling divides by zero
DegenerateCurve ==
  [name |-> "BAD", a |-> 1, b |-> 0, p |-> 173, n |-> 37,
   Gx |-> 0, Gy |-> 0, Kx |-> 0, Ky |-> 0, priv |-> 9]

\* extended_gcd(a, b) of mod_inverse: <<gcd, x, y>>
RECURSIVE extended_gcd(_, _)
extended_gcd(a, b) ==
  IF a = 0 THEN <<b, 0, 1>>
  ELSE LET g == extended_gcd(b % a, a)
       IN  <<g[1], g[3] - (b \div a) * g[2], g[2]>>

mod_inverse(a, m) ==
  LET g == extended_gcd(a % m, m)
  IN  IF g[1] # 1 THEN Raise("ValueError") ELSE Ok(((g[2] % m) + m) % m)

\* EllipticCurvePoint(x, y, curve); the curve is passed beside the point
Point(x, y) == [x |-> x, y |-> y, infinity |-> FALSE]

infinity_point == [x |-> 0, y |-> 0, infinity |-> TRUE]

\* x3, y3 of __add__ from the slope s
Chord(P, Q, s, curve) ==
  LET x3 == (s * s - P.x - Q.x) % curve.p
      y3 == (s * (P.x - x3) - P.y) % curve.p
  IN  Point(x3, y3)

\* EllipticCurvePoint.__add__
PointAdd(P, Q, curve) ==
  IF P.infinity THEN Ok(Q)
  ELSE IF Q.infinity THEN Ok(P)
  ELSE IF P.x = Q.x
       THEN IF P.y = Q.y
            THEN Try(mod_inverse(2 * P.y, curve.p),
                     LAMBDA inv :
                       Ok(Chord(P, Q,
                                ((3 * P.x * P.x + curve.a) * inv) % curve.p,
                                curve)))
            ELSE Ok(infinity_point)
       ELSE Try(mod_inverse(Q.x - P.x, curve.p),
                LAMBDA inv :
                  Ok(Chord(P, Q, ((Q.y - P.y) * inv) % curve.p, curve)))

\* the while loop of __mul__: if scalar & 1: result = result + addend;
\* addend = addend + addend; scalar >>= 1
RECURSIVE MulLoop(_, _, _, _)
MulLoop(result, addend, scalar, curve) ==
  IF scalar = 0 THEN Ok(result)
  ELSE Try(IF scalar % 2 = 1 THEN PointAdd(result, addend, curve)
           ELSE Ok(result),
           LAMBDA r1 :
             Try(PointAdd(addend, addend, curve),
                 LAMBDA a2 : MulLoop(r1, a2, scalar \div 2, curve)))

\* EllipticCurvePoint.__mul__
PointMul(P, scalar, curve) ==
  IF scalar = 0 THEN Ok(infinity_point)
  ELSE IF scalar < 0 THEN Raise("ValueError")
  ELSE MulLoop(infinity_point, P, scalar, curve)

(***************************************************************************)
(* Product IDs                                                             *)
(***************************************************************************)
\* "00490-92005-99454-AT527", the PID of the usage examples: SPK ID 5
PID_A ==
  << "0", "0", "4", "9", "0", "-", "9", "2", "0", "0", "5", "-", "9", "9",
     "4", "5", "4", "-", "A", "T", "5", "2", "7" >>

\* "11111-22222-33333-AT527": SPK ID 2
PID_B ==
  << "1", "1", "1", "1", "1", "-", "2", "2", "2", "2", "2", "-", "3", "3",
     "3", "3", "3", "-", "A", "T", "5", "2", "7" >>

\* "05809-92004-99454-AT527": SPK ID 4, and the same RC4 key as PID_A (the key
\* is 40 bits of the digest, so two PIDs can share it)
PID_A2 ==
  << "0", "5", "8", "0", "9", "-", "9", "2", "0", "0", "4", "-", "9", "9", "4",
     "5", "4", "-", "A", "T", "5", "2", "7" >>

\* "00490-92001234567890123": the eleven-digit SPK ID 12345690123
PID_D ==
  << "0", "0", "4", "9", "0", "-", "9", "2", "0", "0", "1", "2", "3", "4",
     "5", "6", "7", "8", "9", "0", "1", "2", "3" >>

\* "00490-92005": shorter than 23 characters
PID_SHORT ==
  << "0", "0", "4", "9", "0", "-", "9", "2", "0", "0", "5" >>

\* "00490-92005AT527-99454X": the SPK ID field is not a decimal number
PID_ALPHA ==
  << "0", "0", "4", "9", "0", "-", "9", "2", "0", "0", "5", "A", "T", "5",
     "2", "7", "-", "9", "9", "4", "5", "4", "X" >>

DIGITS == << "0", "1", "2", "3", "4", "5", "6", "7", "8", "9" >>

IsDigit(ch) == \E i \in 1..Len(DIGITS) : DIGITS[i] = ch

DigitValue(ch) == (CHOOSE i \in 1..Len(DIGITS) : DIGITS[i] = ch) - 1

\* ord(ch) of the characters a PID of the model is made of
Ord(ch) ==
  IF IsDigit(ch) THEN 48 + DigitValue(ch)
  ELSE IF ch = "-" THEN 45
  ELSE IF ch = "A" THEN 65
  ELSE IF ch = "T" THEN 84
  ELSE 88

\* pid.encode('utf-16-le'): two bytes per character, the code then zero
RECURSIVE utf16le(_)
utf16le(str) ==
  IF str = <<>> THEN <<>> ELSE <<Ord(str[1]), 0>> \o utf16le(Tail(str))

\* str.split("-")[0]
RECURSIVE FirstField(_)
FirstField(str) ==
  IF str = <<>> \/ str[1] = "-" THEN <<>>
  ELSE <<str[1]>> \o FirstField(Tail(str))

\* int(spkid_str) for a string of the model's characters: ValueError unless
\* it is a non-empty string of decimal digits
RECURSIVE ParseFrom(_, _, _)
ParseFrom(str, i, out) ==
  IF i > Len(str) THEN Ok(out)
  ELSE IF ~IsDigit(str[i]) THEN Raise("ValueError")
  ELSE ParseFrom(str, i + 1, MulAdd(out, 10, DigitValue(str[i])))

ParseInt(str) == IF str = <<>> THEN Raise("ValueError") ELSE ParseFrom(str, 1, <<>>)

\* pid[lo:hi], 0-based and clipped as a Python slice is
Slice(str, lo, hi) ==
  SubSeq(str, lo + 1, IF hi < Len(str) THEN hi ELSE Len(str))

get_spkid(pid) ==
  IF Len(pid) < 23 THEN Raise("ValueError")
  ELSE ParseInt(FirstField(Slice(pid, 10, 16) \o Slice(pid, 18, 23)))

(***************************************************************************)
(* Hashes (mixing functions standing for MD5 and SHA-1) and RC4            *)
(***************************************************************************)
\* the weighted byte sum of data[lo..hi-1], modulo a prime
RECURSIVE MixRange(_, _, _)
MixRange(data, lo, hi) ==
  IF hi <= lo THEN 0
  ELSE IF hi - lo = 1
       THEN (((lo * lo * 31 + lo * 7 + 3) % 65521) * (data[lo] + 1)) % 65521
  ELSE (MixRange(data, lo, (lo + hi) \div 2)
          + MixRange(data, (lo + hi) \div 2, hi)) % 65521

Mix(data, seed) == (MixRange(data, 1, Len(data) + 1) + seed) % 65521

RECURSIVE Squeeze(_, _)
Squeeze(st, len) ==
  IF len = 0 THEN <<>>
  ELSE LET nx == (st * 75 + 74) % 65537
       IN  <<nx % 256>> \o Squeeze(nx, len - 1)

\* hashlib.md5(data).digest(): 16 bytes
md5(data) == Squeeze(Mix(data, 5381), 16)

\* hashlib.sha1(data).digest(): 20 bytes, one function per salt
sha1(data, salt) == Squeeze(Mix(data, 17 + 101 * salt), 20)

\* rk = md5_digest[:5] + b'\x00' * 11
rc4_key(pid) ==
  LET md5_digest == md5(utf16le(pid))
  IN  SubSeq(md5_digest, 1, 5) \o [i \in 1..11 |-> 0]

\* the list(range(lo, hi))
RECURSIVE Range(_, _)
Range(lo, hi) ==
  IF hi <= lo THEN <<>>
  ELSE IF hi - lo = 1 THEN <<lo>>
  ELSE Range(lo, (lo + hi) \div 2) \o Range((lo + hi) \div 2, hi)

\* the cell s[i] of the 0-based list s
At(s, i) == s[i + 1]

\* s[i], s[j] = s[j], s[i]
Swap(s, i, j) == [s EXCEPT ![i + 1] = s[j + 1], ![j + 1] = s[i + 1]]

\* one pass of the key scheduling loop: j = (j + s[i] + key[i % len(key)]) % 256,
\* then the swap
KsaStep(st, i, key) ==
  LET j2 == (st.j + At(st.s, i) + key[(i % Len(key)) + 1]) % 256
  IN  [s |-> Swap(st.s, i, j2), j |-> j2]

\* the passes lo, lo + 1, ..., hi - 1 of the loop, in that order (reading st.j
\* evaluates the state the range starts from before the descent)
RECURSIVE KsaRange(_, _, _, _)
KsaRange(st, lo, hi, key) ==
  IF hi <= lo \/ st.j < 0 THEN st
  ELSE IF hi - lo = 1 THEN KsaStep(st, lo, key)
  ELSE KsaRange(KsaRange(st, lo, (lo + hi) \div 2, key),
                (lo + hi) \div 2, hi, key)

\* key scheduling: s = list(range(256)); for i in range(256)
KSA(key) == KsaRange([s |-> Range(0, 256), j |-> 0], 0, 256, key).s

\* pseudo-random generation: for byte in data
RECURSIVE PRGA(_, _, _, _, _)
PRGA(s, i, j, data, k) ==
  IF k > Len(data) THEN <<>>
  ELSE LET i2 == (i + 1) % 256
           j2 == (j + At(s, i2)) % 256
           s2 == Swap(s, i2, j2)
           kb == At(s2, (At(s2, i2) + At(s2, j2)) % 256)
       IN  <<BitXor(data[k], kb)>> \o PRGA(s2, i2, j2, data, k + 1)

rc4(key, data) == PRGA(KSA(key), 0, 0, data, 1)

(***************************************************************************)
(* Signature engine: field widths                                          *)
(***************************************************************************)
\* the width a digest word md[:4], md[4:8] is read at (32 in the source)
WORD_BITS == 2

\* part2 = part2_intermediate >> 29: all but the top bits of the second word
\* (the top 3 of 32 in the source, the top 1 of WORD_BITS here)
PART2_SHIFT == 1

\* the width of the h field: the shift of s in sigdata, 35 in the source, and
\* the width of the h the digest gives
HBITS == 3

\* the width of the mask h is read through: 0x7FFFFFFFFF, 39 bits in the
\* source, wider than the field and so reaching into the low bits of s
HMASK_BITS == 4

\* the width of s: mask 0x1FFFFFFFFFFFFFFFFF, 69 bits, in the source
SBITS == 5

\* the bytes of sigdata: 14 in the source; the top one holds no bit of s or h
SIG_LEN == 2

\* the bytes R.x and R.y are serialised to
COORD_LEN == 48

\* the width of the SPK ID in the payload: mask 0x1FFFFFFFFFF
SPKID_BITS == 41

\* generate_tskey(..., max_attempts: int = 1000)
max_attempts == 1000

HMASK == Pow2(HMASK_BITS) - 1

SMASK == Pow2(SBITS) - 1

\* the bytes of the decrypted key body: 21 in the source
KEYDATA_LEN == INNER_LEN + SIG_LEN

\* pke[:20]: the bytes of the key body that are encoded
PK_LEN == KEYDATA_LEN - 1

\* n & (2^bits - 1) on a Nat
LowBits(n, bits) ==
  LET len == IF Len(n) < (bits + 7) \div 8 THEN Len(n) ELSE (bits + 7) \div 8
  IN  Trim([i \in 1..len |->
              IF 8 * i <= bits THEN n[i] ELSE n[i] % Pow2(bits - 8 * (i - 1))])

\* a digest word, little-endian, read at WORD_BITS
Word(md, k) == md[4 * k + 1] % Pow2(WORD_BITS)

\* part1 = md[:4]; part2 = md[4:8] >> 29; h = (part2 << 32) | part1
HashWords(md) ==
  BitOr(Shl(Shr(Word(md, 1), PART2_SHIFT), WORD_BITS), Word(md, 0))

\* sha1_input = keydata_inner + Rx_bytes + Ry_bytes; the h of its digest
HashPoint(keydata_inner, R, salt) ==
  Try(bigint_to_bytes_le(FromInt(R.x), COORD_LEN),
      LAMBDA Rx_bytes :
        Try(bigint_to_bytes_le(FromInt(R.y), COORD_LEN),
            LAMBDA Ry_bytes :
              Ok(HashWords(sha1(keydata_inner \o Rx_bytes \o Ry_bytes,
                                salt)))))

(***************************************************************************)
(* validate_tskey                                                          *)
(***************************************************************************)
\* keydata_inner = dc_kdata[:7]; sigdata = dc_kdata[7:]; h and s out of sigdata
Split(dc_kdata) ==
  LET sigdata == ToInt(bytes_to_bigint_le(
                   SubSeq(dc_kdata, INNER_LEN + 1, Len(dc_kdata))))
  IN  [keydata_inner |-> SubSeq(dc_kdata, 1, INNER_LEN),
       h |-> BitAnd(sigdata, HMASK),
       s |-> BitAnd(Shr(sigdata, HBITS), SMASK)]

\* decode, serialise, decrypt and split: keydata_inner, h, s
Unpack(pid, tskey) ==
  Try(decode_pkey(tskey),
      LAMBDA keydata_int :
        Try(bigint_to_bytes_le(keydata_int, KEYDATA_LEN),
            LAMBDA keydata_bytes :
              Ok(Split(rc4(rc4_key(pid), keydata_bytes)))))

\* R = K * h + G * s
Recover(h, s, curve) ==
  Try(PointMul(Point(curve.Kx, curve.Ky), h, curve),
      LAMBDA hK :
        Try(PointMul(Point(curve.Gx, curve.Gy), s, curve),
            LAMBDA sG : PointAdd(hK, sG, curve)))

\* the signature check: R is finite and the recomputed hash ht equals h
SignatureCheck(u, curve, salt) ==
  Try(Recover(u.h, u.s, curve),
      LAMBDA R :
        IF R.infinity THEN Ok(FALSE)
        ELSE Try(HashPoint(u.keydata_inner, R, salt),
                 LAMBDA ht : Ok(u.h = ht)))

\* spkid_from_key == spkid_from_pid
SpkidCheck(pid, keydata_inner) ==
  Try(get_spkid(pid),
      LAMBDA spkid_from_pid :
        Ok(LowBits(bytes_to_bigint_le(keydata_inner), SPKID_BITS)
             = spkid_from_pid))

\* a verifier that takes the signature for the whole check
PayloadCheckSkipped(pid, keydata_inner, is_spk) == Ok(TRUE)

\* if is_spk: return spkid_from_key == spkid_from_pid; return True
PayloadCheck(pid, keydata_inner, is_spk) ==
  IF is_spk THEN SpkidCheck(pid, keydata_inner) ELSE Ok(TRUE)

\* the body of the try block
validate_body(pid, tskey, curve, is_spk, salt) ==
  Try(Unpack(pid, tskey),
      LAMBDA u :
        Try(SignatureCheck(u, curve, salt),
            LAMBDA sig_ok :
              IF ~sig_ok THEN Ok(FALSE)
              ELSE PayloadCheck(pid, u.keydata_inner, is_spk)))

\* a handler that lets the exception through
OnExceptionPropagate(r) == r

\* except Exception as e: ... return False
OnException(r) == IF IsOk(r) THEN r ELSE Ok(FALSE)

validate_tskey(pid, tskey, curve, is_spk, salt) ==
  OnException(validate_body(pid, tskey, curve, is_spk, salt))

(***************************************************************************)
(* generate_tskey, generate_spk, generate_lkp                              *)
(***************************************************************************)
CurveOf(name) ==
  IF name = "SPK" THEN SPKCurve
  ELSE IF name = "LKP" THEN LKPCurve
  ELSE DegenerateCurve

\* a mask test that lets s equal to the mask through
s_fits_nonstrict(s) == BitAnd(s, SMASK) = s

\* not (s_masked != s or s_masked >= 0x1FFFFFFFFFFFFFFFFF)
s_fits(s) == BitAnd(s, SMASK) = s /\ BitAnd(s, SMASK) < SMASK

\* a generator that returns the key without validating it
self_validate_skipped(pid, pkstr, curve, salt) == TRUE

\* is_spk = (curve.n == SPKCurve.n); validate_tskey(pid, pkstr, curve, is_spk)
self_validate(pid, pkstr, curve, salt) ==
  validate_tskey(pid, pkstr, curve, curve.n = SPKCurve.n, salt).val

\* what a pass of the loop comes to: kind is "return", "continue" or the class
\* of the exception that leaves the function; packed tells whether the pass
\* got as far as packing s and h into sigdata
Continue ==
  [kind |-> "continue", packed |-> FALSE, pkstr |-> <<>>, h |-> 0, s |-> 0,
   sigdata |-> 0]

Escape(e) ==
  [kind |-> e, packed |-> FALSE, pkstr |-> <<>>, h |-> 0, s |-> 0,
   sigdata |-> 0]

\* the statement after a call inside the loop: K on the value returned, or
\* the exception leaving generate_tskey
OrEscape(r, K(_)) == IF IsOk(r) THEN K(r.val) ELSE Escape(r.exc)

\* if not validate_tskey(...): continue; return pkstr
Finish(pid, curve, salt, h_masked, s_masked, sigdata, pkstr) ==
  IF self_validate(pid, pkstr, curve, salt)
  THEN [kind |-> "return", packed |-> TRUE, pkstr |-> pkstr, h |-> h_masked,
        s |-> s_masked, sigdata |-> sigdata]
  ELSE [kind |-> "continue", packed |-> TRUE, pkstr |-> <<>>, h |-> h_masked,
        s |-> s_masked, sigdata |-> sigdata]

\* sigdata_bytes, pkdata, the length test, pke = rc4(rk, pkdata),
\* pk = pke[:20], pkstr = encode_pkey(pk)
Pack(pid, keydata_inner, curve, salt, h_masked, s_masked, sigdata) ==
  OrEscape(bigint_to_bytes_le(FromInt(sigdata), SIG_LEN),
           LAMBDA sigdata_bytes :
             IF Len(keydata_inner \o sigdata_bytes) # KEYDATA_LEN
             THEN [Continue EXCEPT !.packed = TRUE, !.h = h_masked,
                                   !.s = s_masked, !.sigdata = sigdata]
             ELSE Finish(pid, curve, salt, h_masked, s_masked, sigdata,
                         encode_pkey(bytes_to_bigint_le(
                           SubSeq(rc4(rc4_key(pid),
                                      keydata_inner \o sigdata_bytes),
                                  1, PK_LEN)))))

\* the mask test on s, then sigdata = (s_masked << 35) | h_masked
Sign(pid, keydata_inner, curve, salt, h, s) ==
  IF ~s_fits(s) THEN Continue
  ELSE Pack(pid, keydata_inner, curve, salt, BitAnd(h, HMASK),
            BitAnd(s, SMASK),
            BitOr(Shl(BitAnd(s, SMASK), HBITS), BitAnd(h, HMASK)))

\* one pass of the for loop with the nonce drawn: "continue", "return" or the
\* class of the exception that leaves the function
Attempt(pid, keydata_inner, curve, salt, c_nonce) ==
  OrEscape(PointMul(Point(curve.Gx, curve.Gy), c_nonce, curve),
           LAMBDA R :
             OrEscape(HashPoint(keydata_inner, R, salt),
                      LAMBDA h :
                        Sign(pid, keydata_inner, curve, salt, h,
                             (c_nonce - (curve.priv * h)) % curve.n)))

\* secrets.randbelow(curve.n - 1) + 1
Nonces(curve) == 1..(curve.n - 1)

\* spkdata = bigint_to_bytes_le(get_spkid(pid), 7)
spk_data(pid) ==
  LET spkid_num == get_spkid(pid)
  IN  IF ~IsOk(spkid_num) THEN spkid_num
      ELSE bigint_to_bytes_le(spkid_num.val, INNER_LEN)

(***************************************************************************)
(* State.  Each specification drives one part of the program; the records  *)
(* of the other parts stay idle.                                           *)
(***************************************************************************)
CodecIdle == [pc |-> "idle", n |-> <<>>, key |-> <<>>, dec |-> Ok(<<>>)]

LkpIdle ==
  [pc |-> "idle", count |-> 0, chid |-> 0, major_ver |-> 0, minor_ver |-> 0,
   version |-> 0, lkpdata |-> Ok(<<>>)]

\* a call of generate_tskey: its arguments, `passes` (what a pass of the loop
\* comes to for each nonce the generator can draw, which the arguments fix),
\* the loop variable while the loop runs, and what the call returned or raised
\* with the signature the returned key was packed from
GenIdle ==
  [pc |-> "idle", pid |-> <<>>, inner |-> <<>>, curve |-> "SPK", salt |-> 0,
   passes |-> {}, attempt |-> 0, key |-> <<>>, h |-> 0, s |-> 0,
   sigdata |-> 0, exc |-> "none"]

\* a call of validate_tskey: its arguments, what its try block came to, the
\* exception the handler caught ("none" if none), and the result
ValIdle ==
  [pc |-> "idle", pid |-> <<>>, tskey |-> <<>>, curve |-> "SPK",
   is_spk |-> TRUE, salt |-> 0, body |-> Ok(FALSE), caught |-> "none",
   result |-> Ok(FALSE)]

\* an optional argument of the command line: given is FALSE for None
Some(v) == [given |-> TRUE, v |-> v]

NoStr == [given |-> FALSE, v |-> <<>>]

NoInt == [given |-> FALSE, v |-> 0]

\* a run of main(): the parsed arguments, what generate_spk and generate_lkp
\* can return or raise for them, the SPK and LKP of the run, the error it
\* ended with ("none" if none), whether the supplied SPK was verified and with
\* what result, and whether a new SPK was generated
RunIdle ==
  [pc |-> "idle",
   args |-> [list |-> FALSE, pid |-> NoStr, spk |-> NoStr, count |-> NoInt,
             license |-> NoStr],
   spk_results |-> {}, lkp_results |-> {}, spk |-> NoStr, lkp |-> NoStr,
   error |-> "none", verified |-> "no", spk_generated |-> FALSE]

\* the record of a finished call of validate_tskey; body is what the try
\* block came to
Finished(pid, tskey, curve, is_spk, salt, body) ==
  [pc |-> "done", pid |-> pid, tskey |-> tskey, curve |-> curve,
   is_spk |-> is_spk, salt |-> salt, body |-> body, caught |-> body.exc,
   result |-> OnException(body)]

Validated(pid, tskey, curve, is_spk, salt) ==
  Finished(pid, tskey, curve, is_spk, salt,
           validate_body(pid, tskey, CurveOf(curve), is_spk, salt))

(***************************************************************************)
(* Spec: a call of generate_tskey, then validate_tskey on the key it       *)
(* returned                                                                *)
(***************************************************************************)
\* the sha1 functions of the family are 0..MaxSalt
MaxSalt == 1

GenPIDs == {PID_A, PID_SHORT}

VerifyPIDs == {PID_A, PID_A2, PID_B, PID_SHORT, PID_ALPHA}

\* 7-byte payloads (the SPK payload of PID_A, an LKP payload) and a payload of
\* the wrong length
Payloads == {spk_data(PID_A).val, lkp_data(1234, 29, 10, 2).val, <<1, 2, 3>>}

\* a call with each PID, payload, curve and hash function; `passes` is
\* computed from the arguments once, when the call starts
Init ==
  /\ gen \in
       {[GenIdle EXCEPT
           !.pc = "loop", !.pid = p, !.inner = m, !.curve = c, !.salt = k,
           !.passes = {Attempt(p, m, CurveOf(c), k, c_nonce) :
                         c_nonce \in Nonces(CurveOf(c))}] :
          p \in GenPIDs, m \in Payloads, c \in {"SPK", "LKP"},
          k \in 0..MaxSalt}
  /\ val = ValIdle
  /\ codec = CodecIdle
  /\ lkp = LkpIdle
  /\ run = RunIdle

\* a loop that makes one pass too many
loop_continues_once_more(attempt) == attempt <= max_attempts

\* for attempt in range(max_attempts)
loop_continues(attempt) == attempt < max_attempts

\* one pass of the loop with a fresh nonce: return the key, go on to the next
\* pass, or let an exception out
LoopPass ==
  /\ gen.pc = "loop"
  /\ loop_continues(gen.attempt)
  /\ \E o \in gen.passes :
       gen' = IF o.kind = "return"
              THEN [gen EXCEPT !.pc = "returned", !.attempt = 0,
                               !.key = o.pkstr, !.h = o.h, !.s = o.s,
                               !.sigdata = o.sigdata]
              ELSE IF o.kind = "continue"
              THEN [gen EXCEPT !.attempt = @ + 1]
              ELSE [gen EXCEPT !.pc = "raised", !.attempt = 0, !.exc = o.kind]
  /\ UNCHANGED <<codec, lkp, val, run>>

\* the loop ran out: raise RuntimeError("Failed to generate valid key ...")
LoopExhausted ==
  /\ gen.pc = "loop"
  /\ ~loop_continues(gen.attempt)
  /\ gen' = [gen EXCEPT !.pc = "raised", !.exc = "RuntimeError"]
  /\ UNCHANGED <<codec, lkp, val, run>>

\* validate_tskey(pid, key, curve, is_spk) on the returned key, with any PID
Verify ==
  /\ gen.pc = "returned"
  /\ val.pc = "idle"
  /\ \E vpid \in VerifyPIDs :
       val' = Validated(vpid, gen.key, gen.curve, gen.curve = "SPK", gen.salt)
  /\ UNCHANGED <<codec, lkp, gen, run>>

Next == LoopPass \/ LoopExhausted \/ Verify

Spec == Init /\ [][Next]_vars

\* the loop is a sequential program: it keeps running until it returns or raises
FairSpec == Spec /\ WF_vars(LoopPass) /\ WF_vars(LoopExhausted)

(***************************************************************************)
(* Properties of generate_tskey and validate_tskey                         *)
(***************************************************************************)
\* C1: on both curves, for any PID and payload, a key that generate_tskey
\* returned is accepted by validate_tskey called with the same PID and the
\* same curve, the SPK payload check enabled exactly on the SPK curve.
GeneratedKeyValidates ==
  (val.pc = "done" /\ val.pid = gen.pid) => val.result = Ok(TRUE)

\* a returned key has been validated against its own PID and accepted
ReturnedKeyAccepted ==
  /\ gen.pc = "returned"
  /\ val.pc = "done"
  /\ val.pid = gen.pid
  /\ val.result = Ok(TRUE)

\* C2: an SPK is accepted against a PID only if the low 41 bits of the
\* decrypted inner payload equal the SPK ID parsed from that PID; so an SPK
\* generated for one PID is rejected against a PID whose SPK ID field differs.
SpkBoundToPid ==
  (val.pc = "done" /\ val.is_spk) =>
    /\ val.result.val =>
         /\ IsOk(get_spkid(val.pid))
         /\ LowBits(bytes_to_bigint_le(
                      Unpack(val.pid, val.tskey).val.keydata_inner),
                    SPKID_BITS)
              = get_spkid(val.pid).val
    /\ get_spkid(val.pid) # get_spkid(gen.pid) => ~val.result.val

\* an SPK whose signature check passes against another PID (same RC4 key) is
\* rejected because the SPK ID of that PID differs
SpkRejectedDespiteSignature ==
  /\ val.pc = "done"
  /\ val.is_spk
  /\ ~val.result.val
  /\ IsOk(get_spkid(val.pid))
  /\ get_spkid(val.pid) # get_spkid(gen.pid)
  /\ SignatureCheck(Unpack(val.pid, val.tskey).val, CurveOf(val.curve),
                    val.salt) = Ok(TRUE)

\* C4: the signing loop terminates; it makes at most 1000 passes, returns a
\* key as soon as a pass produces one, and after 1000 rejected passes raises
\* the exhaustion error without returning a key.
LoopTerminatesWithinBound ==
  /\ [][/\ gen'.attempt <= max_attempts
        /\ (gen.pc = "loop" /\ gen'.pc = "loop") =>
             (gen.attempt < max_attempts /\ gen'.attempt = gen.attempt + 1)
        /\ (gen.pc = "loop" /\ gen'.pc = "returned") =>
             /\ gen.attempt < max_attempts
             /\ \E o \in gen.passes : o.kind = "return" /\ o.pkstr = gen'.key
        /\ (gen.pc = "loop" /\ gen'.pc = "raised" /\ gen'.exc = "RuntimeError") =>
             (gen.attempt = max_attempts /\ gen'.key = <<>>)]_vars
  /\ <>(gen.pc # "loop")

\* all 1000 passes were rejected although some nonce would have produced a key
ExhaustedAfterThousand ==
  /\ gen.pc = "raised"
  /\ gen.exc = "RuntimeError"
  /\ gen.attempt = max_attempts
  /\ gen.key = <<>>
  /\ \E o \in gen.passes : o.kind = "return"

\* C10: a returned key was packed from h < 2^HBITS and s < 2^SBITS - 1
\* (strictly below the mask), so the top byte of sigdata = (s << HBITS) | h
\* is zero; a pass whose s equals the mask or overflows it packs nothing.
SignatureFitsField ==
  /\ \A o \in gen.passes :
       o.packed =>
         /\ o.h < Pow2(HBITS)
         /\ o.s < SMASK
         /\ o.sigdata = Shl(o.s, HBITS) + o.h
         /\ Shr(o.sigdata, 8 * (SIG_LEN - 1)) = 0
  /\ gen.pc = "returned" =>
       \E o \in gen.passes :
         /\ o.packed
         /\ o.kind = "return"
         /\ <<o.pkstr, o.h, o.s, o.sigdata>>
              = <<gen.key, gen.h, gen.s, gen.sigdata>>

\* a key was returned whose s is the largest value the mask test lets through
LargestSReturned ==
  /\ gen.pc = "returned"
  /\ gen.s = SMASK - 1

(***************************************************************************)
(* SpecCodec: encode_pkey on an integer, then decode_pkey on the key       *)
(***************************************************************************)
\* the integers 0..MaxCodecN are all encoded
MaxCodecN == 600

\* the number of base-24 digits of the range the codec is specified on
MaxDigits == 25

\* n - 1 for n > 0
RECURSIVE Pred(_)
Pred(n) ==
  IF n[1] > 0 THEN Trim([n EXCEPT ![1] = @ - 1])
  ELSE <<255>> \o Pred(Tail(n))

\* 0 <= n < 24^25: the small integers, the powers 24^e, their predecessors
\* (e digits, all the last character of the alphabet) and their doubles
CodecInputs ==
  {FromInt(k) : k \in 0..MaxCodecN}
    \cup {Pow(Len(KCHARS), e) : e \in 0..(MaxDigits - 1)}
    \cup {Pred(Pow(Len(KCHARS), e)) : e \in 1..MaxDigits}
    \cup {MulAdd(Pow(Len(KCHARS), e), 2, 7) : e \in 1..(MaxDigits - 1)}

InitCodec ==
  /\ codec \in {[CodecIdle EXCEPT !.pc = "start", !.n = n] : n \in CodecInputs}
  /\ gen = GenIdle
  /\ val = ValIdle
  /\ lkp = LkpIdle
  /\ run = RunIdle

Encode ==
  /\ codec.pc = "start"
  /\ codec' = [codec EXCEPT !.pc = "encoded", !.key = encode_pkey(codec.n)]
  /\ UNCHANGED <<lkp, gen, val, run>>

Decode ==
  /\ codec.pc = "encoded"
  /\ codec' = [codec EXCEPT !.pc = "decoded", !.dec = decode_pkey(codec.key)]
  /\ UNCHANGED <<lkp, gen, val, run>>

NextCodec == Encode \/ Decode

SpecCodec == InitCodec /\ [][NextCodec]_vars

\* the characters of a key at the places of a key of `groups` groups of five:
\* a dash after every group but the last, an alphabet character elsewhere
HasShape(key, groups) ==
  /\ Len(key) = (GROUP_LEN + 1) * groups - 1
  /\ \A i \in 1..Len(key) :
       IF i % (GROUP_LEN + 1) = 0 THEN key[i] = "-" ELSE KIndex(key[i]) >= 0

\* C7, as the code has it: for 0 < n < 24^25 encode_pkey(n) is a 41-character
\* key, 35 alphabet characters left-padded with 'B' in seven groups of five
\* separated by six dashes, and encode_pkey(0) is the empty string.
EncodedShape ==
  codec.pc # "start" =>
    IF codec.n = <<>> THEN codec.key = <<>>
    ELSE /\ HasShape(codec.key, PAD_LEN \div GROUP_LEN)
         /\ \A i \in 1..(PAD_LEN - MaxDigits) :
              StripDashes(codec.key)[i] = KCHARS[1]

\* the largest integer of the range has been encoded
LargestEncoded ==
  /\ codec.pc = "encoded"
  /\ Len(codec.n) >= 15
  /\ codec.key[13] = KCHARS[Len(KCHARS)]
  /\ Len(codec.key) = 41

\* C7, as stated: encode_pkey(n) is the 29-character key, 25 alphabet
\* characters in five groups of five; encode_pkey(0) is all 'B'.
EncodedIs29Characters ==
  codec.pc # "start" =>
    /\ HasShape(codec.key, MaxDigits \div GROUP_LEN)
    /\ codec.n = <<>> =>
         \A i \in 1..Len(codec.key) : codec.key[i] \in {"B", "-"}

\* C8: decode_pkey(encode_pkey(n)) == n for every 0 <= n < 24^25, n = 0
\* included.
CodecRoundTrip == codec.pc = "decoded" => codec.dec = Ok(codec.n)

\* a 25-digit integer has made the round trip
LargeRoundTrip ==
  /\ codec.pc = "decoded"
  /\ Len(codec.n) >= 14
  /\ codec.dec = Ok(codec.n)

(***************************************************************************)
(* SpecLkp: generate_lkp up to the call of generate_tskey                  *)
(***************************************************************************)
\* major versions 0..MaxMajor, minor versions 0..MaxMinor
MaxMajor == 10

MaxMinor == 3

LkpCounts == {1, 1234, 9999}

\* 1024 does not fit the 10 bits left of the 7 bytes
LkpChids == {1, 29, 1023, 1024}

InitLkp ==
  /\ lkp \in {[LkpIdle EXCEPT !.pc = "start", !.count = n, !.chid = c,
                              !.major_ver = j, !.minor_ver = i] :
                n \in LkpCounts, c \in LkpChids, j \in 0..MaxMajor,
                i \in 0..MaxMinor}
  /\ codec = CodecIdle
  /\ gen = GenIdle
  /\ val = ValIdle
  /\ run = RunIdle

\* version, lkpinfo, lkpdata = bigint_to_bytes_le(lkpinfo, 7)
EncodeLkp ==
  /\ lkp.pc = "start"
  /\ lkp' = [lkp EXCEPT
               !.pc = "encoded",
               !.version = lkp_version(lkp.major_ver, lkp.minor_ver),
               !.lkpdata = lkp_data(lkp.count, lkp.chid, lkp.major_ver,
                                    lkp.minor_ver)]
  /\ UNCHANGED <<codec, gen, val, run>>

\* the length test, then generate_tskey(pid, lkpdata, LKPCurve): the call Spec
\* follows
SignLkp ==
  /\ lkp.pc = "encoded"
  /\ lkp' = [lkp EXCEPT
               !.pc = IF ~IsOk(lkp.lkpdata) THEN "raised"
                      ELSE IF Len(lkp.lkpdata.val) # INNER_LEN THEN "raised"
                      ELSE "signing"]
  /\ UNCHANGED <<codec, gen, val, run>>

NextLkp == EncodeLkp \/ SignLkp

SpecLkp == InitLkp /\ [][NextLkp]_vars

\* C9, as the code has it: bits 9..3 of the payload hold 1 when major < 5 or
\* (major, minor) = (5, 0), and (major << 3) | minor for every other pair
\* (a code below 128, which the field can hold).
VersionCodeInPayload ==
  (lkp.pc = "signing"
     /\ BitOr(Shl(lkp.major_ver, 3), lkp.minor_ver) < 128) =>
    VersionField(lkp.lkpdata.val) =
      IF lkp.major_ver < 5 \/ (lkp.major_ver = 5 /\ lkp.minor_ver = 0)
      THEN 1
      ELSE BitOr(Shl(lkp.major_ver, 3), lkp.minor_ver)

\* a payload for a version below 5.0 carries the code 1
OldVersionEncodedAsOne ==
  /\ lkp.pc = "signing"
  /\ lkp.major_ver = 4
  /\ lkp.minor_ver = 2
  /\ VersionField(lkp.lkpdata.val) = 1

\* C9, as stated: the code is 1 for (5, 0) and (major << 3) | minor for every
\* other pair, those with major < 5 included.
VersionCodeForEveryPair ==
  lkp.pc = "signing" =>
    VersionField(lkp.lkpdata.val) =
      IF lkp.major_ver = 5 /\ lkp.minor_ver = 0 THEN 1
      ELSE BitOr(Shl(lkp.major_ver, 3), lkp.minor_ver)

(***************************************************************************)
(* SpecVerify: validate_tskey on arbitrary arguments                       *)
(***************************************************************************)
\* "BCD": not a multiple of five characters
KEY_SHORT == << "B", "C", "D" >>

\* "BBBBA": 'A' is not in the alphabet
KEY_BADCHAR == << "B", "B", "B", "B", "A" >>

\* forty times '9': 24^40 - 1, more than the key body can hold
KEY_HUGE == [i \in 1..40 |-> "9"]

\* the signature bytes 0..MaxSigByte are all tried
MaxSigByte == 63

\* the key that packs `inner` with the signature field bytes `sig` for pid,
\* whatever the signature is worth
CraftKey(pid, inner, sig) ==
  encode_pkey(bytes_to_bigint_le(
    SubSeq(rc4(rc4_key(pid), inner \o sig), 1, PK_LEN)))

VerifyKeys ==
  {KEY_SHORT, KEY_BADCHAR, KEY_HUGE, <<>>}
    \cup {CraftKey(PID_A, spk_data(PID_A).val, <<sb, 0>>) : sb \in 0..MaxSigByte}

AnyPIDs == {PID_A, PID_B, PID_D, PID_SHORT, PID_ALPHA, <<>>}

InitVerify ==
  /\ val \in {[ValIdle EXCEPT !.pc = "start", !.pid = p, !.tskey = k,
                              !.curve = c, !.is_spk = b] :
                p \in AnyPIDs, k \in VerifyKeys,
                c \in {"SPK", "LKP", "BAD"}, b \in BOOLEAN}
  /\ codec = CodecIdle
  /\ lkp = LkpIdle
  /\ gen = GenIdle
  /\ run = RunIdle

\* the try block
TryBody ==
  /\ val.pc = "start"
  /\ val' = [val EXCEPT
               !.pc = "tried",
               !.body = validate_body(val.pid, val.tskey, CurveOf(val.curve),
                                      val.is_spk, val.salt)]
  /\ UNCHANGED <<codec, lkp, gen, run>>

\* the return of the try block, or the except clause
Handle ==
  /\ val.pc = "tried"
  /\ val' = Finished(val.pid, val.tskey, val.curve, val.is_spk, val.salt,
                     val.body)
  /\ UNCHANGED <<codec, lkp, gen, run>>

NextVerify == TryBody \/ Handle

SpecVerify == InitVerify /\ [][NextVerify]_vars

\* C3: validate_tskey never raises; for every PID and key it returns a
\* boolean, and every failure of a lower layer (key length, key character,
\* key too large, PID too short, curve arithmetic) is reported as False.
ValidateNeverRaises ==
  val.pc = "done" =>
    /\ val.result.exc = "none"
    /\ val.result.val \in BOOLEAN
    /\ val.caught # "none" => val.result = Ok(FALSE)

\* an arithmetic failure of the curve layer has been reported as False
ArithmeticFailureReported ==
  /\ val.pc = "done"
  /\ val.curve = "BAD"
  /\ val.pid = PID_A
  /\ val.caught = "ValueError"
  /\ val.result = Ok(FALSE)

(***************************************************************************)
(* SpecMain: the flow of main() after the arguments are parsed             *)
(***************************************************************************)
\* the decimal digits of k, most significant first
RECURSIVE Dec(_)
Dec(k) ==
  IF k < 10 THEN <<DIGITS[k + 1]>> ELSE Dec(k \div 10) \o <<DIGITS[(k % 10) + 1]>>

\* a key of LICENSE_TYPES: the channel id on three digits, major, minor
LicenseCode(chid, major_ver, minor_ver) ==
  rjust(Dec(chid), 3, "0") \o <<"_">> \o Dec(major_ver) \o <<"_">>
    \o Dec(minor_ver)

\* the keys of the dict LICENSE_TYPES
LICENSE_TYPES ==
  {LicenseCode(t[1], t[2], t[3]) :
     t \in {<<1, 5, 0>>, <<2, 5, 0>>, <<3, 5, 2>>, <<4, 5, 2>>, <<5, 6, 0>>,
            <<6, 6, 0>>, <<9, 6, 0>>, <<10, 6, 0>>, <<16, 6, 0>>,
            <<11, 6, 2>>, <<12, 6, 2>>, <<15, 6, 2>>, <<20, 10, 0>>,
            <<21, 10, 0>>, <<22, 10, 0>>, <<26, 10, 1>>, <<27, 10, 1>>,
            <<28, 10, 1>>, <<29, 10, 2>>, <<30, 10, 2>>, <<31, 10, 2>>,
            <<32, 10, 3>>, <<33, 10, 3>>, <<34, 10, 3>>}}

\* str.split(sep)
RECURSIVE Split_(_, _, _)
Split_(str, sep, cur) ==
  IF str = <<>> THEN <<cur>>
  ELSE IF str[1] = sep THEN <<cur>> \o Split_(Tail(str), sep, <<>>)
  ELSE Split_(Tail(str), sep, cur \o <<str[1]>>)

\* chid, major_ver, minor_ver = int(parts[0]), int(parts[1]), int(parts[2])
ParseTriple(parts) ==
  Try(ParseInt(parts[1]),
      LAMBDA chid :
        Try(ParseInt(parts[2]),
            LAMBDA major_ver :
              Try(ParseInt(parts[3]),
                  LAMBDA minor_ver :
                    Ok([chid |-> ToInt(chid), major_ver |-> ToInt(major_ver),
                        minor_ver |-> ToInt(minor_ver)]))))

\* what a call of generate_tskey can come to, given what a pass can come to:
\* a key some pass returns, an exception some pass lets out, or the
\* RuntimeError of the exhausted loop when passes can be rejected
LoopOutcomes(passes) ==
  {Ok(o.pkstr) : o \in {a \in passes : a.kind = "return"}}
    \cup {Raise(o.kind) : o \in {a \in passes : a.kind \notin {"return", "continue"}}}
    \cup (IF \E o \in passes : o.kind = "continue"
          THEN {Raise("RuntimeError")} ELSE {})

\* generate_tskey(pid, keydata_inner, curve) as main() sees it: the set of
\* its possible results, with the hash function the program has
generate_tskey(pid, keydata_inner, curve) ==
  LoopOutcomes({Attempt(pid, keydata_inner, curve, 0, c_nonce) :
                  c_nonce \in Nonces(curve)})

\* the payload test of generate_spk and generate_lkp, then generate_tskey
SignPayload(pid, data, curve) ==
  IF ~IsOk(data) THEN {data}
  ELSE IF Len(data.val) # INNER_LEN THEN {Raise("ValueError")}
  ELSE generate_tskey(pid, data.val, curve)

generate_spk(pid) == SignPayload(pid, spk_data(pid), SPKCurve)

generate_lkp(pid, count, chid, major_ver, minor_ver) ==
  SignPayload(pid, lkp_data(count, chid, major_ver, minor_ver), LKPCurve)

\* "BBBBB-BBBBB-BBBBB-BBBBB-BT3BQ-XV4M3-89FRM": an SPK of PID_A
GOOD_SPK ==
  << "B", "B", "B", "B", "B", "-", "B", "B", "B", "B", "B", "-", "B", "B",
     "B", "B", "B", "-", "B", "B", "B", "B", "B", "-", "B", "T", "3", "B",
     "Q", "-", "X", "V", "4", "M", "3", "-", "8", "9", "F", "R", "M" >>

\* "BBBBB-BBBBB-BBBBB-BBBBB-B23PB-4T2JK-QQDWB": a key that is no SPK of PID_A
BAD_SPK ==
  << "B", "B", "B", "B", "B", "-", "B", "B", "B", "B", "B", "-", "B", "B",
     "B", "B", "B", "-", "B", "B", "B", "B", "B", "-", "B", "2", "3", "P",
     "B", "-", "4", "T", "2", "J", "K", "-", "Q", "Q", "D", "W", "B" >>

\* "999_1_1" is no key of LICENSE_TYPES; "029-10" is not even a triple
MainLicenses ==
  {NoStr, Some(LicenseCode(29, 10, 2)), Some(LicenseCode(999, 1, 1)),
   Some(<< "0", "2", "9", "-", "1", "0" >>)}

MainCounts == {NoInt, Some(0), Some(1), Some(9999), Some(10000)}

MainSpks == {NoStr, Some(<<>>), Some(GOOD_SPK), Some(BAD_SPK)}

MainPIDs == {NoStr, Some(PID_A), Some(PID_SHORT)}

\* if x: of an optional string
Truthy(opt) == opt.given /\ opt.v # <<>>

\* the results generate_lkp can have for the arguments, where main() can get
\* as far as calling it
LkpResultsFor(pid, count, license) ==
  IF pid.given /\ count.given /\ license.given /\ license.v \in LICENSE_TYPES
  THEN LET t == ParseTriple(Split_(license.v, "_", <<>>))
       IN  IF IsOk(t)
           THEN generate_lkp(pid.v, count.v, t.val.chid, t.val.major_ver,
                             t.val.minor_ver)
           ELSE {}
  ELSE {}

\* the results generate_spk can have for the PID, if there is one
SpkResultsFor(pid) == IF pid.given THEN generate_spk(pid.v) ELSE {}

\* every combination of arguments; the results of the two generators are
\* computed once for the arguments they depend on
InitMain ==
  /\ \E p \in MainPIDs :
       \E sr \in {SpkResultsFor(p)} :
         \E n \in MainCounts, l \in MainLicenses :
           \E lr \in {LkpResultsFor(p, n, l)} :
             \E k \in MainSpks, li \in BOOLEAN :
               run = [RunIdle EXCEPT
                        !.pc = "start",
                        !.args = [list |-> li, pid |-> p, spk |-> k,
                                  count |-> n, license |-> l],
                        !.spk_results = sr, !.lkp_results = lr]
  /\ codec = CodecIdle
  /\ lkp = LkpIdle
  /\ gen = GenIdle
  /\ val = ValIdle

\* sys.exit(1) after the message
Exit(r, error) == [r EXCEPT !.pc = "exit", !.error = error]

\* --list, then the argument checks before "Generating keys for PID"
CheckArgs ==
  /\ run.pc = "start"
  /\ run' =
       IF run.args.list THEN [run EXCEPT !.pc = "exit"]
       ELSE IF ~Truthy(run.args.pid) THEN Exit(run, "pid_required")
       ELSE IF Truthy(run.args.spk)
                 /\ (~run.args.count.given \/ ~run.args.license.given)
            THEN Exit(run, "spk_needs_count_and_license")
       ELSE IF run.args.count.given # run.args.license.given
            THEN Exit(run, "count_and_license_together")
       ELSE [run EXCEPT !.pc = "spk_step"]
  /\ UNCHANGED <<codec, lkp, gen, val>>

\* a check of the supplied SPK that accepts whatever it is given
spk_matches_unchecked(pid, spk) == TRUE

\* validate_tskey(args.pid, args.spk, SPKCurve, is_spk=True)
spk_matches(pid, spk) == validate_tskey(pid, spk, SPKCurve, TRUE, 0).val

\* if args.spk: validate the provided SPK
VerifySpk ==
  /\ run.pc = "spk_step"
  /\ Truthy(run.args.spk)
  /\ run' =
       IF spk_matches(run.args.pid.v, run.args.spk.v)
       THEN [run EXCEPT !.pc = "lkp_step", !.verified = "valid",
                        !.spk = run.args.spk]
       ELSE [Exit(run, "spk_mismatch") EXCEPT !.verified = "invalid"]
  /\ UNCHANGED <<codec, lkp, gen, val>>

\* else: spk = generate_spk(args.pid); an exception ends the run in the
\* except clause of main()
GenerateSpk ==
  /\ run.pc = "spk_step"
  /\ ~Truthy(run.args.spk)
  /\ \E r \in run.spk_results :
       run' = IF IsOk(r)
              THEN [run EXCEPT !.pc = "lkp_step", !.spk = Some(r.val),
                               !.spk_generated = TRUE]
              ELSE Exit(run, r.exc)
  /\ UNCHANGED <<codec, lkp, gen, val>>

\* a range test that lets 10000 through
count_in_range_off_by_one(count) == 1 <= count /\ count <= 10000

\* 1 <= args.count <= 9999
count_in_range(count) == 1 <= count /\ count <= 9999

\* if args.count is not None and args.license is not None: the checks before
\* generate_lkp
CheckLkp ==
  /\ run.pc = "lkp_step"
  /\ run' =
       IF ~(run.args.count.given /\ run.args.license.given)
       THEN [run EXCEPT !.pc = "exit"]
       ELSE IF run.args.license.v \notin LICENSE_TYPES
            THEN Exit(run, "invalid_license_type")
       ELSE IF ~count_in_range(run.args.count.v)
            THEN Exit(run, "count_out_of_range")
       ELSE IF Len(Split_(run.args.license.v, "_", <<>>)) # 3
            THEN Exit(run, "license_format")
       ELSE IF ~IsOk(ParseTriple(Split_(run.args.license.v, "_", <<>>)))
            THEN Exit(run, "ValueError")
       ELSE [run EXCEPT !.pc = "lkp_gen"]
  /\ UNCHANGED <<codec, lkp, gen, val>>

\* lkp = generate_lkp(args.pid, args.count, chid, major_ver, minor_ver)
GenerateLkp ==
  /\ run.pc = "lkp_gen"
  /\ \E r \in run.lkp_results :
       run' = IF IsOk(r) THEN [run EXCEPT !.pc = "exit", !.lkp = Some(r.val)]
              ELSE Exit(run, r.exc)
  /\ UNCHANGED <<codec, lkp, gen, val>>

NextMain == CheckArgs \/ VerifySpk \/ GenerateSpk \/ CheckLkp \/ GenerateLkp

SpecMain == InitMain /\ [][NextMain]_vars

(***************************************************************************)
(* Properties of main()                                                    *)
(***************************************************************************)
\* C5: a supplied SPK is verified against the PID on the SPK curve before
\* anything is generated; if it verifies it is the SPK of the run, unchanged,
\* and no SPK is generated; if it does not, the run ends with the SPK
\* mismatch error and no LKP is generated.
SuppliedSpkVerifiedFirst ==
  Truthy(run.args.spk) =>
    /\ ~run.spk_generated
    /\ (run.spk.given \/ run.lkp.given \/ run.pc \in {"lkp_step", "lkp_gen"}) =>
         run.verified = "valid"
    /\ run.verified = "valid" =>
         /\ run.spk = run.args.spk
         /\ validate_tskey(run.args.pid.v, run.args.spk.v, SPKCurve, TRUE, 0)
              = Ok(TRUE)
    /\ run.verified = "invalid" =>
         /\ run.pc = "exit"
         /\ run.error = "spk_mismatch"
         /\ ~run.spk.given
         /\ ~run.lkp.given
    /\ (run.pc = "exit" /\ run.verified = "no") =>
         (~run.spk.given /\ ~run.lkp.given)

\* a run that verified the supplied SPK, kept it and generated an LKP
SuppliedSpkUsed ==
  /\ run.pc = "exit"
  /\ Truthy(run.args.spk)
  /\ run.verified = "valid"
  /\ run.spk = run.args.spk
  /\ run.lkp.given
  /\ run.error = "none"

\* the messages of main() that report an invalid license or count
InvalidLicense == {"invalid_license_type", "count_out_of_range", "license_format"}

\* a run for a PID with count and license both given and the count outside
\* 1..9999 has ended
EndedWithBadCount ==
  /\ run.pc = "exit"
  /\ ~run.args.list
  /\ Truthy(run.args.pid)
  /\ run.args.count.given
  /\ run.args.license.given
  /\ ~(1 <= run.args.count.v /\ run.args.count.v <= 9999)

\* C6, as the code has it: with count and license both given, a count outside
\* 1..9999 makes the run fail without an LKP, with the invalid-license error
\* once the SPK step has succeeded (a failure of the SPK step is reported
\* first); an LKP is generated only for 1 <= count <= 9999.
BadCountRejectedAfterSpk ==
  /\ EndedWithBadCount =>
       /\ run.error # "none"
       /\ ~run.lkp.given
       /\ run.spk.given => run.error \in InvalidLicense
  /\ run.lkp.given =>
       /\ run.args.count.given
       /\ run.args.license.given
       /\ 1 <= run.args.count.v
       /\ run.args.count.v <= 9999

\* count 10000 rejected after the SPK step succeeded
TenThousandRejected ==
  /\ EndedWithBadCount
  /\ run.args.count.v = 10000
  /\ run.spk.given
  /\ run.error = "count_out_of_range"
  /\ ~run.lkp.given

\* C6, as stated: with count and license both given, a count outside 1..9999
\* makes the run fail with the invalid-license error, and no LKP is generated.
BadCountAlwaysInvalidLicense ==
  EndedWithBadCount => (run.error \in InvalidLicense /\ ~run.lkp.given)

====
